---- MODULE Spec2Model ----
(***************************************************************************)
(* Model of the two packaging scripts of gemini-xo:                        *)
(*   scripts/build-single-file.js  (Bun single-file executables)           *)
(*   scripts/build-standalone.js   (Node launcher packages)                *)
(* A behaviour is a sequence of invocations of one of the two scripts on   *)
(* one working tree.  External programs (bun, npm) and the file system's   *)
(* failures are nondeterministic inputs of the step that calls them.       *)
(***************************************************************************)
EXTENDS Integers, Sequences, FiniteSets, TLC

\* ------------------------------------------------------------------ bounds
MaxArgs == 2
MaxRuns == 2

\* ------------------------------------------------------------------ strings
\* The characters of every string the scripts test with startsWith / endsWith.
Chars(s) ==
  CASE s = "--all"        -> <<"-", "-", "a", "l", "l">>
    [] s = "--verbose"    -> <<"-", "-", "v", "e", "r", "b", "o", "s", "e">>
    [] s = ""             -> <<>>
    [] s = "bogus"        -> <<"b", "o", "g", "u", "s">>
    [] s = "constructor"  -> <<"c", "o", "n", "s", "t", "r", "u", "c", "t", "o", "r">>
    [] s = "linux-x64"    -> <<"l", "i", "n", "u", "x", "-", "x", "6", "4">>
    [] s = "linux-arm64"  -> <<"l", "i", "n", "u", "x", "-", "a", "r", "m", "6", "4">>
    [] s = "mac-x64"      -> <<"m", "a", "c", "-", "x", "6", "4">>
    [] s = "mac-arm64"    -> <<"m", "a", "c", "-", "a", "r", "m", "6", "4">>
    [] s = "win-x64"      -> <<"w", "i", "n", "-", "x", "6", "4">>
    [] s = "pty.node"     -> <<"p", "t", "y", ".", "n", "o", "d", "e">>
    [] s = "package.json" -> <<"p", "a", "c", "k", "a", "g", "e", ".", "j", "s", "o", "n">>
    [] s = "--"           -> <<"-", "-">>
    [] s = "win"          -> <<"w", "i", "n">>
    [] s = ".node"        -> <<".", "n", "o", "d", "e">>

\* String.prototype.startsWith
StartsWith(s, p) ==
  LET cs == Chars(s)
      cp == Chars(p)
  IN  /\ Len(cp) <= Len(cs)
      /\ \A i \in 1..Len(cp) : cs[i] = cp[i]

\* String.prototype.endsWith
EndsWith(s, p) ==
  LET cs == Chars(s)
      cp == Chars(p)
  IN  /\ Len(cp) <= Len(cs)
      /\ \A i \in 1..Len(cp) : cs[Len(cs) - Len(cp) + i] = cp[i]

\* ------------------------------------------------------------------ tables
\* Object.keys order of the platform tables (insertion order).
KeyOrder == <<"linux-x64", "linux-arm64", "mac-x64", "mac-arm64", "win-x64">>
Keys == {KeyOrder[i] : i \in 1..Len(KeyOrder)}

targets ==
  ("linux-x64" :> "bun-linux-x64") @@ ("linux-arm64" :> "bun-linux-arm64") @@
  ("mac-x64" :> "bun-darwin-x64") @@ ("mac-arm64" :> "bun-darwin-arm64") @@
  ("win-x64" :> "bun-windows-x64")

outputNames ==
  ("linux-x64" :> "gsharp") @@ ("linux-arm64" :> "gsharp") @@
  ("mac-x64" :> "gsharp") @@ ("mac-arm64" :> "gsharp") @@
  ("win-x64" :> "gsharp.exe")

platforms ==
  ("linux-x64" :> [ext |-> ""]) @@ ("linux-arm64" :> [ext |-> ""]) @@
  ("mac-x64" :> [ext |-> ""]) @@ ("mac-arm64" :> [ext |-> ""]) @@
  ("win-x64" :> [ext |-> ".cmd"])

ptyMap ==
  ("win-x64" :> "@lydell/node-pty-win32-x64") @@
  ("mac-x64" :> "@lydell/node-pty-darwin-x64") @@
  ("mac-arm64" :> "@lydell/node-pty-darwin-arm64") @@
  ("linux-x64" :> "@lydell/node-pty-linux-x64") @@
  ("linux-arm64" :> "@lydell/node-pty-linux-arm64")

\* The tables are plain object literals: a property read also finds what
\* Object.prototype supplies, and those values (functions) are truthy.
ObjectPrototypeProps == {"constructor", "toString", "valueOf", "hasOwnProperty"}

\* Truthiness of table[key] for one of the tables above.
TruthyLookup(table, key) == key \in DOMAIN table \/ key \in ObjectPrototypeProps

\* table[key] is a string (an own entry), which path.join accepts.
IsOwnString(table, key) == key \in DOMAIN table

\* ------------------------------------------------------------------ inputs
Undefined == "<undefined>"
Unread == "<unread>"

ArgTokens == {"--all", "--verbose", "win-x64", "bogus", "constructor", ""}
ArgLists == UNION {[1..n -> ArgTokens] : n \in 0..MaxArgs}

OSes == {"win32", "darwin", "linux", "freebsd"}
Arches == {"x64", "arm64"}

\* Exit statuses a child process can report.
Statuses == {0, 1}

\* What readdirSync can list in a node-pty package directory.
PtyListings == {<<"package.json">>, <<"package.json", "pty.node">>}

\* What "npm run bundle" leaves in bundle/ when it produces the bundle.
BundleOutput == {"gemini.js"}
BundleOrder == <<"gemini.js">>

Min(a, b) == IF a <= b THEN a ELSE b

\* ------------------------------------------------------------------ argv
\* args.includes(x)
includes(a, x) == \E i \in 1..Len(a) : a[i] = x

\* args.find((a) => !a.startsWith('--'))
findNonFlag(a) ==
  LET hits == {i \in 1..Len(a) : ~StartsWith(a[i], "--")}
  IN  IF hits = {} THEN Undefined
      ELSE a[CHOOSE i \in hits : \A j \in hits : i <= j]

\* const args = process.argv.slice(2) and the two constants derived from it,
\* for every argument list within the bound.
ParsedArgs ==
  {[buildAll |-> includes(a, "--all"), specificPlatform |-> findNonFlag(a)] :
     a \in ArgLists}

\* JavaScript truthiness of a string-or-undefined value.
Truthy(v) == v # Undefined /\ v # ""

VARIABLES
  script,        \* which of the two scripts the working tree is built with
  pc,            \* position of the running process
  runs,          \* invocations started so far
  buildAll,      \* const buildAll = args.includes('--all')
  specificPlatform, \* const specificPlatform = args.find(...)
  idx,           \* position of the --all loop in Object.keys(...)
  bundle,        \* the bundle/ directory
  distSingle,    \* the dist-single/ tree
  distPkg,       \* the dist-standalone/ tree
  exitCode,      \* exit code of the process, -1 while it runs
  printed,       \* what the process printed: the 'Available:' list, 'Done!'
  attempts,      \* platform arguments of the per-platform builder calls, in order
  failed,        \* arguments whose builder call threw
  locatorRuns,   \* calls of ensureBundle in this invocation
  bundleRuns,    \* "npm run bundle" child processes of this invocation
  fsChanged,     \* this invocation deleted, created or wrote something
  removedLeftovers, \* this invocation's rmSync deleted earlier output
  host,          \* process.platform / process.arch once read
  last           \* the latest per-platform builder call

vars == <<script, pc, runs, buildAll, specificPlatform, idx, bundle, distSingle, distPkg, exitCode,
          printed, attempts, failed, locatorRuns, bundleRuns, fsChanged,
          removedLeftovers, host, last>>


\* ------------------------------------------------------------------ file system
NoDir == [present |-> FALSE, files |-> {}, stale |-> FALSE]
NewDir == [present |-> TRUE, files |-> {}, stale |-> FALSE]

\* dist-single/ : one directory per platform key, each a set of file names.
\* "stale" marks a directory that an earlier invocation left behind.
NoDistSingle == [exists |-> FALSE, dirs |-> [k \in Keys |-> NoDir]]

\* dist-standalone/ : one gsharp-<key> directory per argument buildPackage
\* accepts, each a set of [dir, name, content] files.
PkgNames == Keys \cup (ArgTokens \cap ObjectPrototypeProps)
NoDistPkg == [exists |-> FALSE, dirs |-> [k \in PkgNames |-> NoDir]]

NoBundle == [exists |-> FALSE, files |-> {}]

\* existsSync(join(bundleDir, 'gemini.js'))
BundleFileExists(b) == b.exists /\ "gemini.js" \in b.files

\* rmSync(distDir, { recursive: true })
rmSync(dist) == [exists |-> FALSE, dirs |-> [k \in DOMAIN dist.dirs |-> NoDir]]

\* mkdirSync(distDir, { recursive: true })
mkdirRoot(dist) == [dist EXCEPT !.exists = TRUE]

\* mkdirSync(join(distDir, <name>), { recursive: true })
mkdirSync(dist, name) ==
  [exists |-> TRUE,
   dirs |-> [dist.dirs EXCEPT ![name] = IF @.present THEN @ ELSE NewDir]]

\* At the start of an invocation everything already in the tree is left over.
MarkStale(dist) ==
  [dist EXCEPT !.dirs = [k \in DOMAIN dist.dirs |->
                           [dist.dirs[k] EXCEPT !.stale = dist.dirs[k].present]]]

\* The external "npm run bundle": it may or may not leave bundle/gemini.js.
NpmRunBundle(b, status, produces) ==
  IF status = 0 /\ produces
  THEN [exists |-> TRUE, files |-> b.files \cup BundleOutput]
  ELSE b

\* ------------------------------------------------------------------ build-single-file.js
\* Mutant: run ends the process on a failing command, as the other script's does.
runExits(status, allowFailure) ==
  IF status # 0 /\ ~allowFailure THEN "exit1" ELSE "ok"

\* run(command, args, options): "ok" when it returns, "throw" when it throws
\* ("exit1" would be a process.exit(1), which this script's run never does).
run(status, allowFailure) ==
  IF status # 0 /\ ~allowFailure THEN "throw" ELSE "ok"

\* Mutant: the architecture is not looked at on macOS.
getCurrentPlatformNoArch(platform, arch) ==
  IF platform = "win32" THEN "win-x64"
  ELSE IF platform = "darwin" THEN "mac-x64"
       ELSE (IF arch = "arm64" THEN "linux-arm64" ELSE "linux-x64")

getCurrentPlatform(platform, arch) ==
  IF platform = "win32" THEN "win-x64"
  ELSE IF platform = "darwin"
       THEN (IF arch = "arm64" THEN "mac-arm64" ELSE "mac-x64")
       ELSE (IF arch = "arm64" THEN "linux-arm64" ELSE "linux-x64")

\* ensureBundle(): the child process runs only when bundle/gemini.js is absent.
ensureBundle(b, status, produces) ==
  IF ~BundleFileExists(b)
  THEN [ran |-> 1, outcome |-> run(status, FALSE),
        bundle |-> NpmRunBundle(b, status, produces)]
  ELSE [ran |-> 0, outcome |-> "ok", bundle |-> b]

\* What copyNativeAddons found at the addon package directory: it did not
\* look, existsSync said no, or the .node files readdirSync listed.
NotLooked == [dir |-> "unseen", nodes |-> {}]
SawNoDir == [dir |-> "missing", nodes |-> {}]
SawDir(files) == [dir |-> "present", nodes |-> {files[i] : i \in 1..Len(files)}]

\* Mutant: every file of the listing is taken.
NodeFilesNoFilter(listing) == listing

\* The .node files of a directory listing, in listing order.
NodeFiles(listing) == SelectSeq(listing, LAMBDA f : EndsWith(f, ".node"))

\* The addon package directory as one builder call finds it: whether it
\* exists, what it lists, and how many copies succeed before one throws.
PtyEnvs ==
  {[exists |-> FALSE, listing |-> <<>>, nOK |-> 0]}
    \cup UNION {{[exists |-> TRUE, listing |-> l, nOK |-> n] :
                   n \in 0..Len(NodeFiles(l))} : l \in PtyListings}

\* Mutant: no existsSync guard, so readdirSync throws into the catch.
copyNativeAddonsNoGuard(platform, dest, ptyExists, listing, nOK) ==
  IF ~ptyExists
  THEN [files |-> dest, warned |-> TRUE, copied |-> {}, saw |-> SawNoDir]
  ELSE LET files == NodeFiles(listing)
           n == Min(nOK, Len(files))
           done == {files[i] : i \in 1..n}
       IN  [files |-> dest \cup done, warned |-> n < Len(files), copied |-> done,
            saw |-> SawDir(files)]

\* copyNativeAddons(platform, destDir): `dest` is the set of file names of
\* destDir; nOK copies succeed before copyFileSync throws (all when nOK is
\* at least the number of files).
copyNativeAddons(platform, dest, ptyExists, listing, nOK) ==
  IF ~TruthyLookup(ptyMap, platform)
  THEN [files |-> dest, warned |-> FALSE, copied |-> {}, saw |-> NotLooked]
  ELSE IF ~IsOwnString(ptyMap, platform)
  THEN [files |-> dest, warned |-> TRUE, copied |-> {}, saw |-> NotLooked]
  ELSE IF ~ptyExists
  THEN [files |-> dest, warned |-> FALSE, copied |-> {}, saw |-> SawNoDir]
  ELSE LET files == NodeFiles(listing)
           n == Min(nOK, Len(files))
           done == {files[i] : i \in 1..n}
       IN  [files |-> dest \cup done, warned |-> n < Len(files), copied |-> done,
            saw |-> SawDir(files)]

\* buildForPlatform(platform, bundlePath) on the dist-single tree `dist`.
buildForPlatform(dist, platform, status, ptyExists, listing, nOK) ==
  IF ~IsOwnString(outputNames, platform)
  THEN [dist |-> dist, outcome |-> "threw", threwAt |-> "join",
        warned |-> FALSE, copied |-> {}, saw |-> NotLooked]
  ELSE LET d1 == mkdirSync(dist, platform)
           ran == run(status, FALSE)
       IN  IF ran # "ok"
           THEN [dist |-> d1, outcome |-> IF ran = "throw" THEN "threw" ELSE "exit1",
                 threwAt |-> "compile",
                 warned |-> FALSE, copied |-> {}, saw |-> NotLooked]
           ELSE LET exe == d1.dirs[platform].files \cup {outputNames[platform]}
                    c == copyNativeAddons(platform, exe, ptyExists, listing, nOK)
                IN  [dist |-> [d1 EXCEPT !.dirs[platform].files = c.files],
                     outcome |-> "returned", threwAt |-> "none",
                     warned |-> c.warned, copied |-> c.copied, saw |-> c.saw]

\* ------------------------------------------------------------------ state
NoCall == [key |-> Undefined, outcome |-> "none", threwAt |-> "none",
           saw |-> NotLooked, warned |-> FALSE, copied |-> {},
           rebuilt |-> FALSE, bundleThere |-> FALSE]
NoHost == [os |-> Unread, arch |-> Unread]
NoPrint == [available |-> <<>>, done |-> FALSE]

Init ==
  /\ script \in {"single", "standalone"}
  /\ pc = "idle"
  /\ runs = 0
  /\ buildAll = FALSE
  /\ specificPlatform = Undefined
  /\ idx = 1
  /\ bundle \in {NoBundle, [exists |-> TRUE, files |-> {}],
                 [exists |-> TRUE, files |-> BundleOutput]}
  /\ distSingle = NoDistSingle
  /\ distPkg = NoDistPkg
  /\ exitCode = -1
  /\ printed = NoPrint
  /\ attempts = <<>>
  /\ failed = {}
  /\ locatorRuns = 0
  /\ bundleRuns = 0
  /\ fsChanged = FALSE
  /\ removedLeftovers = FALSE
  /\ host = NoHost
  /\ last = NoCall

\* A new process is started: node scripts/<script>.js ...args
Invoke ==
  /\ pc \in {"idle", "exited"}
  /\ runs < MaxRuns
  /\ \E parsed \in ParsedArgs :
       /\ buildAll' = parsed.buildAll
       /\ specificPlatform' = parsed.specificPlatform
  /\ runs' = runs + 1
  /\ pc' = IF script = "single" THEN "bunCheck" ELSE "ensureBundle"
  /\ idx' = 1
  /\ distSingle' = MarkStale(distSingle)
  /\ distPkg' = distPkg
  /\ exitCode' = -1
  /\ printed' = NoPrint
  /\ attempts' = <<>>
  /\ failed' = {}
  /\ locatorRuns' = 0
  /\ bundleRuns' = 0
  /\ fsChanged' = FALSE
  /\ removedLeftovers' = FALSE
  /\ host' = NoHost
  /\ last' = NoCall
  /\ UNCHANGED <<script, bundle>>

\* process.exit(code), or the end of the script
Exit(code) == pc' = "exited" /\ exitCode' = code

\* Record of one per-platform builder call.
Call(key, r, rebuilt) ==
  [key |-> key, outcome |-> r.outcome, threwAt |-> r.threwAt, saw |-> r.saw,
   warned |-> r.warned, copied |-> r.copied, rebuilt |-> rebuilt,
   bundleThere |-> BundleFileExists(bundle)]

\* ---- main() of build-single-file.js
\* Mutant: the directory is created but never removed first.
cleanDistNoRm(dist) == mkdirRoot(dist)

\* if (existsSync(distDir)) rmSync(distDir, ...); mkdirSync(distDir, ...)
cleanDist(dist) == mkdirRoot(IF dist.exists THEN rmSync(dist) ELSE dist)

\* Mutant: no try/catch around the call.
loopStepNoCatch(outcome, i) ==
  IF outcome # "returned" THEN "exited"
  ELSE IF i = Len(KeyOrder) THEN "finish" ELSE "dispatch"

\* The --all loop after one buildForPlatform: the catch swallows the throw.
\* (process.exit inside the call cannot be caught.)
loopStep(outcome, i) ==
  IF outcome = "exit1" THEN "exited"
  ELSE IF i = Len(KeyOrder) THEN "finish" ELSE "dispatch"

\* spawnSync('bun', ['--version']) and the exit when it is not found
BunCheck ==
  /\ pc = "bunCheck"
  /\ \E status \in Statuses :
       IF status # 0 THEN Exit(1)
       ELSE pc' = "clean" /\ UNCHANGED exitCode
  /\ UNCHANGED <<removedLeftovers, script, runs, buildAll, specificPlatform, idx, bundle, distSingle, distPkg, printed,
                 attempts, failed, locatorRuns, bundleRuns, fsChanged, host, last>>

\* Clean and create dist directory; rmSync may throw, which main().catch
\* turns into exit code 1.
CleanDist ==
  /\ pc = "clean"
  /\ \E rmThrows \in BOOLEAN :
       IF distSingle.exists /\ rmThrows
       THEN Exit(1) /\ UNCHANGED <<distSingle, fsChanged, removedLeftovers>>
       ELSE /\ distSingle' = cleanDist(distSingle)
            /\ fsChanged' = TRUE
            /\ removedLeftovers' = (\E k \in Keys : distSingle.dirs[k].present
                                                    /\ ~distSingle'.dirs[k].present)
            /\ pc' = "ensureBundle"
            /\ UNCHANGED exitCode
  /\ UNCHANGED <<script, runs, buildAll, specificPlatform, idx, bundle, distPkg, printed, attempts,
                 failed, locatorRuns, bundleRuns, host, last>>

\* const bundlePath = ensureBundle();
EnsureBundle ==
  /\ pc = "ensureBundle"
  /\ script = "single"
  /\ \E status \in Statuses, produces \in BOOLEAN :
       \E r \in {ensureBundle(bundle, status, produces)} :
           /\ bundle' = r.bundle
           /\ bundleRuns' = bundleRuns + r.ran
           /\ locatorRuns' = locatorRuns + 1
           /\ fsChanged' = (fsChanged \/ r.bundle # bundle)
           /\ IF r.outcome = "throw" THEN Exit(1)
              ELSE pc' = "dispatch" /\ UNCHANGED exitCode
  /\ UNCHANGED <<removedLeftovers, script, runs, buildAll, specificPlatform, idx, distSingle, distPkg, printed, attempts,
                 failed, host, last>>

\* One call of buildForPlatform and what it leaves in the state.
SingleBuild(key) ==
  \E status \in Statuses, pty \in PtyEnvs :
    \E r \in {buildForPlatform(distSingle, key, status,
                                pty.exists, pty.listing, pty.nOK)} :
        /\ distSingle' = r.dist
        /\ fsChanged' = (fsChanged \/ r.dist # distSingle)
        /\ attempts' = Append(attempts, key)
        /\ failed' = IF r.outcome # "returned" THEN failed \cup {key} ELSE failed
        /\ last' = Call(key, r, FALSE)

\* One iteration of: for (const platform of Object.keys(targets)) try {...} catch
BuildAll ==
  /\ pc = "dispatch"
  /\ script = "single"
  /\ buildAll
  /\ idx <= Len(KeyOrder)
  /\ SingleBuild(KeyOrder[idx])
  /\ idx' = idx + 1
  /\ pc' = loopStep(last'.outcome, idx)
  /\ exitCode' = IF pc' = "exited" THEN 1 ELSE exitCode
  /\ UNCHANGED <<removedLeftovers, script, runs, buildAll, specificPlatform, bundle, distPkg, printed,
                 locatorRuns, bundleRuns, host>>

\* else if (specificPlatform && targets[specificPlatform])
BuildSpecific ==
  /\ pc = "dispatch"
  /\ script = "single"
  /\ ~buildAll
  /\ Truthy(specificPlatform) /\ TruthyLookup(targets, specificPlatform)
  /\ SingleBuild(specificPlatform)
  /\ IF last'.outcome # "returned" THEN Exit(1)
     ELSE pc' = "finish" /\ UNCHANGED exitCode
  /\ UNCHANGED <<removedLeftovers, script, runs, buildAll, specificPlatform, idx, bundle, distPkg, printed,
                 locatorRuns, bundleRuns, host>>

\* else if (specificPlatform): Unknown platform, Available: ..., exit(1)
UnknownPlatform ==
  /\ pc = "dispatch"
  /\ script = "single"
  /\ ~buildAll
  /\ ~(Truthy(specificPlatform) /\ TruthyLookup(targets, specificPlatform))
  /\ Truthy(specificPlatform)
  /\ printed' = [printed EXCEPT !.available = KeyOrder]
  /\ Exit(1)
  /\ UNCHANGED <<removedLeftovers, script, runs, buildAll, specificPlatform, idx, bundle, distSingle, distPkg, attempts,
                 failed, locatorRuns, bundleRuns, fsChanged, host, last>>

\* else buildForPlatform(getCurrentPlatform(), bundlePath)
BuildHost ==
  /\ pc = "dispatch"
  /\ script = "single"
  /\ ~buildAll
  /\ ~Truthy(specificPlatform)
  /\ \E os \in OSes, arch \in Arches :
       /\ host' = [os |-> os, arch |-> arch]
       /\ SingleBuild(getCurrentPlatform(os, arch))
  /\ IF last'.outcome # "returned" THEN Exit(1)
     ELSE pc' = "finish" /\ UNCHANGED exitCode
  /\ UNCHANGED <<removedLeftovers, script, runs, buildAll, specificPlatform, idx, bundle, distPkg, printed,
                 locatorRuns, bundleRuns>>

\* console.log('Done! ...') and the normal end of main()
Finish ==
  /\ pc = "finish"
  /\ script = "single"
  /\ printed' = [printed EXCEPT !.done = TRUE]
  /\ Exit(0)
  /\ UNCHANGED <<removedLeftovers, script, runs, buildAll, specificPlatform, idx, bundle, distSingle, distPkg, attempts,
                 failed, locatorRuns, bundleRuns, fsChanged, host, last>>

\* ------------------------------------------------------------------ build-standalone.js
\* run(command, args, options): "ok" when it returns, "exit1" for process.exit(1).
runPkg(status, allowFailure) ==
  IF status # 0 /\ ~allowFailure THEN "exit1" ELSE "ok"

ensureBundlePkg(b, status, produces) ==
  IF ~BundleFileExists(b)
  THEN [ran |-> 1, outcome |-> runPkg(status, FALSE),
        bundle |-> NpmRunBundle(b, status, produces)]
  ELSE [ran |-> 0, outcome |-> "ok", bundle |-> b]

getCurrentPlatformPkg(platform, arch) ==
  IF platform = "win32" THEN "win-x64"
  ELSE IF platform = "darwin"
       THEN (IF arch = "arm64" THEN "mac-arm64" ELSE "mac-x64")
       ELSE (IF arch = "arm64" THEN "linux-arm64" ELSE "linux-x64")

\* A file of a package directory: `dir` is "" (the package directory itself)
\* or "bundle"; `content` names the bytes, `mode` the mode it is created with.
File(dir, name, content, mode) ==
  [dir |-> dir, name |-> name, content |-> content, mode |-> mode]

\* writeFileSync / copyFileSync onto join(platformDir, dir, name)
writeFileSync(files, f) ==
  {g \in files : ~(g.dir = f.dir /\ g.name = f.name)} \cup {f}

\* Mutant: the second launcher is written with the other platform's script.
createLauncherMixed(files, isWindows) ==
  IF isWindows
  THEN writeFileSync(
         writeFileSync(files, File("", "gsharp.cmd", "batContent", "default")),
         File("", "gemini-sharp.cmd", "shContent", "default"))
  ELSE writeFileSync(
         writeFileSync(files, File("", "gsharp", "shContent", "0o755")),
         File("", "gemini-sharp", "batContent", "0o755"))

createLauncher(files, isWindows) ==
  IF isWindows
  THEN writeFileSync(
         writeFileSync(files, File("", "gsharp.cmd", "batContent", "default")),
         File("", "gemini-sharp.cmd", "batContent", "default"))
  ELSE writeFileSync(
         writeFileSync(files, File("", "gsharp", "shContent", "0o755")),
         File("", "gemini-sharp", "shContent", "0o755"))

\* The README differs only in the command it names.
readmeContent(isWindows) == IF isWindows THEN "README .\\gsharp.cmd" ELSE "README ./gsharp"

\* Copies of source files keep the source's bytes, named here by the file.
CopyAll(files, names) ==
  {g \in files : ~(g.dir = "bundle" /\ g.name \in names)}
    \cup {File("bundle", n, n, "default") : n \in names}

copyNativeAddonsPkg(platform, dest, ptyExists, listing, nOK) ==
  IF ~TruthyLookup(ptyMap, platform)
  THEN [files |-> dest, warned |-> FALSE, copied |-> {}, saw |-> NotLooked]
  ELSE IF ~IsOwnString(ptyMap, platform)
  THEN [files |-> dest, warned |-> TRUE, copied |-> {}, saw |-> NotLooked]
  ELSE IF ~ptyExists
  THEN [files |-> dest, warned |-> FALSE, copied |-> {}, saw |-> SawNoDir]
  ELSE LET files == NodeFiles(listing)
           n == Min(nOK, Len(files))
           done == {files[i] : i \in 1..n}
       IN  [files |-> CopyAll(dest, done), warned |-> n < Len(files),
            copied |-> done, saw |-> SawDir(files)]

\* buildPackage(platformKey) on the dist-standalone tree `dist`, reading the
\* bundle directory b; nBundleOK bundle files are copied before copyFileSync
\* throws (all when it is at least their number).
buildPackage(dist, b, platformKey, nBundleOK, ptyExists, listing, nOK) ==
  IF ~TruthyLookup(platforms, platformKey)
  THEN [dist |-> dist, outcome |-> "exit1", threwAt |-> "config",
        warned |-> FALSE, copied |-> {}, saw |-> NotLooked]
  ELSE LET isWindows == StartsWith(platformKey, "win")
           d1 == mkdirSync(dist, platformKey)
           bundleFiles == SelectSeq(BundleOrder, LAMBDA f : f \in b.files)
           n == Min(nBundleOK, Len(bundleFiles))
           f1 == CopyAll(d1.dirs[platformKey].files, {bundleFiles[i] : i \in 1..n})
       IN  IF ~b.exists
           THEN [dist |-> d1, outcome |-> "threw", threwAt |-> "readdir",
                 warned |-> FALSE, copied |-> {}, saw |-> NotLooked]
           ELSE IF n < Len(bundleFiles)
           THEN [dist |-> [d1 EXCEPT !.dirs[platformKey].files = f1],
                 outcome |-> "threw", threwAt |-> "copy",
                 warned |-> FALSE, copied |-> {}, saw |-> NotLooked]
           ELSE LET c == copyNativeAddonsPkg(platformKey, f1, ptyExists, listing, nOK)
                    f2 == createLauncher(c.files, isWindows)
                    f3 == writeFileSync(f2, File("", "README.txt",
                                                 readmeContent(isWindows), "default"))
                IN  [dist |-> [d1 EXCEPT !.dirs[platformKey].files = f3],
                     outcome |-> "returned", threwAt |-> "none",
                     warned |-> c.warned, copied |-> c.copied, saw |-> c.saw]

\* ---- the top level of build-standalone.js
\* ensureBundle();
EnsureBundlePkg ==
  /\ pc = "ensureBundle"
  /\ script = "standalone"
  /\ \E status \in Statuses, produces \in BOOLEAN :
       \E r \in {ensureBundlePkg(bundle, status, produces)} :
           /\ bundle' = r.bundle
           /\ bundleRuns' = bundleRuns + r.ran
           /\ locatorRuns' = locatorRuns + 1
           /\ fsChanged' = (fsChanged \/ r.bundle # bundle)
           /\ IF r.outcome = "exit1" THEN Exit(1)
              ELSE pc' = "mkdist" /\ UNCHANGED exitCode
  /\ UNCHANGED <<removedLeftovers, script, runs, buildAll, specificPlatform, idx, distSingle, distPkg,
                 printed, attempts, failed, host, last>>

\* mkdirSync(distDir, { recursive: true });
MkDist ==
  /\ pc = "mkdist"
  /\ distPkg' = mkdirRoot(distPkg)
  /\ fsChanged' = (fsChanged \/ ~distPkg.exists)
  /\ pc' = "dispatch"
  /\ UNCHANGED <<removedLeftovers, script, runs, buildAll, specificPlatform, idx, bundle, distSingle,
                 exitCode, printed, attempts, failed, locatorRuns, bundleRuns,
                 host, last>>

\* One call of buildPackage and what it leaves in the state.
PkgBuild(key) ==
  \E nBundleOK \in 0..Len(BundleOrder), pty \in PtyEnvs :
    \E r \in {buildPackage(distPkg, bundle, key, nBundleOK,
                            pty.exists, pty.listing, pty.nOK)} :
        /\ distPkg' = r.dist
        /\ fsChanged' = (fsChanged \/ r.dist # distPkg)
        /\ attempts' = Append(attempts, key)
        /\ failed' = IF r.outcome # "returned" THEN failed \cup {key} ELSE failed
        /\ last' = Call(key, r, distPkg.dirs[key].present)

\* One iteration of: for (const platform of Object.keys(platforms)) buildPackage(platform)
PkgBuildAll ==
  /\ pc = "dispatch"
  /\ script = "standalone"
  /\ buildAll
  /\ idx <= Len(KeyOrder)
  /\ PkgBuild(KeyOrder[idx])
  /\ idx' = idx + 1
  /\ IF last'.outcome # "returned" THEN Exit(1)
     ELSE /\ pc' = IF idx = Len(KeyOrder) THEN "finish" ELSE "dispatch"
          /\ UNCHANGED exitCode
  /\ UNCHANGED <<removedLeftovers, script, runs, buildAll, specificPlatform, bundle, distSingle,
                 printed, locatorRuns, bundleRuns, host>>

\* else if (specificPlatform && platforms[specificPlatform])
PkgBuildSpecific ==
  /\ pc = "dispatch"
  /\ script = "standalone"
  /\ ~buildAll
  /\ Truthy(specificPlatform) /\ TruthyLookup(platforms, specificPlatform)
  /\ PkgBuild(specificPlatform)
  /\ IF last'.outcome # "returned" THEN Exit(1)
     ELSE pc' = "finish" /\ UNCHANGED exitCode
  /\ UNCHANGED <<removedLeftovers, script, runs, buildAll, specificPlatform, idx, bundle, distSingle,
                 printed, locatorRuns, bundleRuns, host>>

\* else if (specificPlatform): Unknown platform, Available: ..., exit(1)
PkgUnknownPlatform ==
  /\ pc = "dispatch"
  /\ script = "standalone"
  /\ ~buildAll
  /\ ~(Truthy(specificPlatform) /\ TruthyLookup(platforms, specificPlatform))
  /\ Truthy(specificPlatform)
  /\ printed' = [printed EXCEPT !.available = KeyOrder]
  /\ Exit(1)
  /\ UNCHANGED <<removedLeftovers, script, runs, buildAll, specificPlatform, idx, bundle, distSingle,
                 distPkg, attempts, failed, locatorRuns, bundleRuns, fsChanged,
                 host, last>>

\* else buildPackage(getCurrentPlatform())
PkgBuildHost ==
  /\ pc = "dispatch"
  /\ script = "standalone"
  /\ ~buildAll
  /\ ~Truthy(specificPlatform)
  /\ \E os \in OSes, arch \in Arches :
       /\ host' = [os |-> os, arch |-> arch]
       /\ PkgBuild(getCurrentPlatformPkg(os, arch))
  /\ IF last'.outcome # "returned" THEN Exit(1)
     ELSE pc' = "finish" /\ UNCHANGED exitCode
  /\ UNCHANGED <<removedLeftovers, script, runs, buildAll, specificPlatform, idx, bundle, distSingle,
                 printed, locatorRuns, bundleRuns>>

\* console.log('Done! ...') and the end of the script
PkgFinish ==
  /\ pc = "finish"
  /\ script = "standalone"
  /\ printed' = [printed EXCEPT !.done = TRUE]
  /\ Exit(0)
  /\ UNCHANGED <<removedLeftovers, script, runs, buildAll, specificPlatform, idx, bundle, distSingle,
                 distPkg, attempts, failed, locatorRuns, bundleRuns, fsChanged,
                 host, last>>

Next ==
  \/ Invoke
  \/ BunCheck
  \/ CleanDist
  \/ EnsureBundle
  \/ BuildAll
  \/ BuildSpecific
  \/ UnknownPlatform
  \/ BuildHost
  \/ Finish
  \/ EnsureBundlePkg
  \/ MkDist
  \/ PkgBuildAll
  \/ PkgBuildSpecific
  \/ PkgUnknownPlatform
  \/ PkgBuildHost
  \/ PkgFinish

Spec == Init /\ [][Next]_vars

\* ------------------------------------------------------------------ properties
Range(q) == {q[i] : i \in 1..Len(q)}
NoDuplicates(q) == \A i, j \in 1..Len(q) : q[i] = q[j] => i = j
IsPrefix(q, r) == Len(q) <= Len(r) /\ \A i \in 1..Len(q) : q[i] = r[i]

\* The directory the latest builder call worked on.
LastDir == IF script = "single" THEN distSingle.dirs[last.key]
                                ELSE distPkg.dirs[last.key]

\* C1: with --all the single-file driver calls the builder for the keys of
\* the table in order, each once, and does not stop at a failed build: it can
\* only exit after the last key; the standalone driver makes no further call
\* after the first failed one (the process is gone, with exit code 1).
C1_BatchContinuation ==
  /\ (script = "single" /\ buildAll) =>
       /\ IsPrefix(attempts, KeyOrder)
       /\ (pc = "dispatch" => Len(attempts) = idx - 1 /\ idx <= Len(KeyOrder))
       /\ (pc = "exited" /\ attempts # <<>> => attempts = KeyOrder)
       /\ (pc = "finish" => attempts = KeyOrder)
  /\ (script = "standalone" /\ buildAll) =>
       /\ IsPrefix(attempts, KeyOrder)
       /\ (failed # {} =>
             /\ pc = "exited" /\ exitCode = 1
             /\ failed = {attempts[Len(attempts)]})

C1_Witness ==
  /\ script = "single" /\ buildAll /\ pc = "exited"
  /\ KeyOrder[1] \in failed /\ KeyOrder[3] \in failed
  /\ attempts = KeyOrder

C1_WitnessStandalone ==
  /\ script = "standalone" /\ buildAll /\ pc = "exited"
  /\ failed = {KeyOrder[2]} /\ attempts = SubSeq(KeyOrder, 1, 2)

\* C2 (as claimed): when the driver exits on an unknown platform key it exits
\* with code 1, has printed the keys of the table, and has deleted, created
\* or written nothing and run no bundle-production step.
C2_UnknownKeyTouchesNothing ==
  (pc = "exited" /\ ~buildAll /\ specificPlatform # Undefined
     /\ specificPlatform \notin Keys /\ printed.available # <<>>) =>
    /\ exitCode = 1
    /\ printed.available = KeyOrder
    /\ ~fsChanged
    /\ bundleRuns = 0

\* C3 (as claimed): after buildForPlatform returned for a table key, given
\* the bundle, the platform directory holds exactly the executable plus the
\* .node files of the addon package when that directory exists.
C3_ExactlyExecutableAndAllAddons ==
  (script = "single" /\ last.outcome = "returned" /\ last.key \in Keys
     /\ last.bundleThere) =>
    LastDir.files = {outputNames[last.key]}
                      \cup (IF last.saw.dir = "present" THEN last.saw.nodes ELSE {})

\* C3 (amended): after buildForPlatform returned for a table key, the
\* platform directory holds exactly the executable plus the .node files that
\* were copied before a copy failed: all of the package's .node files when no
\* warning was printed, none when the addon directory does not exist, and
\* never a file that is neither the executable nor a .node file.
C3_ExecutableAndCopiedAddons ==
  (script = "single" /\ last.outcome = "returned" /\ last.key \in Keys
     /\ last.bundleThere) =>
    /\ LastDir.present
    /\ LastDir.files = {outputNames[last.key]} \cup last.copied
    /\ last.copied \subseteq last.saw.nodes
    /\ (~last.warned => last.copied = last.saw.nodes)
    /\ (last.saw.dir # "present" => LastDir.files = {outputNames[last.key]})
    /\ \A f \in LastDir.files \ {outputNames[last.key]} : EndsWith(f, ".node")
    /\ outputNames[last.key] = IF last.key = "win-x64" THEN "gsharp.exe" ELSE "gsharp"

C3_Witness ==
  /\ script = "single" /\ last.outcome = "returned" /\ last.bundleThere
  /\ last.key = "win-x64"
  /\ last.saw.dir = "present" /\ last.saw.nodes = {"pty.node"}
  /\ LastDir.files = {"gsharp.exe", "pty.node"}

\* C4 (as claimed): --all selects every table entry; else a non-flag argument
\* that is a table key selects that key; else a non-flag argument that is not
\* a table key builds nothing and exits 1 with the list of keys; else the
\* host key is built.  The builder is called 0 (error), 1 or |table| times,
\* never twice for one key.
C4_ArgumentResolution ==
  pc = "exited" =>
    LET N == Len(attempts)
        hostKey == IF script = "single"
                   THEN getCurrentPlatform(host.os, host.arch)
                   ELSE getCurrentPlatformPkg(host.os, host.arch)
    IN  /\ N \in {0, 1, Len(KeyOrder)}
        /\ NoDuplicates(attempts)
        /\ (N = 0 => exitCode = 1)
        /\ (buildAll => IsPrefix(attempts, KeyOrder))
        /\ (~buildAll /\ specificPlatform \in Keys /\ N > 0 =>
              attempts = <<specificPlatform>>)
        /\ (~buildAll /\ specificPlatform # Undefined
              /\ specificPlatform \notin Keys =>
              /\ N = 0 /\ exitCode = 1
              /\ (locatorRuns = 1 /\ bundleRuns = 0 => printed.available = KeyOrder))
        /\ (~buildAll /\ specificPlatform = Undefined /\ N > 0 =>
              attempts = <<hostKey>>)

\* C5 (as claimed): when an invocation of the single-file driver ends, the
\* output root holds nothing that an earlier invocation left.
C5_NothingLeftOverAtExit ==
  (script = "single" /\ pc = "exited") =>
    \A k \in Keys : distSingle.dirs[k].present => ~distSingle.dirs[k].stale

\* C5 (amended): once an invocation of the single-file driver has passed the
\* toolchain check and its clean step (rmSync did not throw), the output root
\* exists and holds only directories created by this invocation, up to and
\* including the moment it ends.
C5_CleanSlateAfterCleanStep ==
  (script = "single" /\ (pc \in {"ensureBundle", "dispatch", "finish"}
                           \/ (pc = "exited" /\ locatorRuns = 1))) =>
    /\ distSingle.exists
    /\ \A k \in Keys :
         distSingle.dirs[k].present =>
           /\ ~distSingle.dirs[k].stale
           /\ k \in Range(attempts)

C5_Witness ==
  /\ script = "single" /\ pc = "exited" /\ exitCode = 0 /\ runs = 2
  /\ removedLeftovers
  /\ attempts = <<"win-x64">>
  /\ \A k \in Keys : distSingle.dirs[k].present <=> k = "win-x64"

\* C6 (as claimed): the locator runs once, before any builder call; a missing
\* bundle starts the bundle-production step once; the bundle file is then
\* checked again, so a builder is only ever called with the bundle file in
\* place; a failing step ends the run with a non-zero code and no builder call.
C6_LocatorOnceAndRechecked ==
  /\ locatorRuns <= 1
  /\ bundleRuns <= locatorRuns
  /\ (attempts # <<>> => locatorRuns = 1)
  /\ (pc = "exited" /\ locatorRuns = 1 /\ bundleRuns = 1 /\ attempts = <<>>
        /\ printed.available = <<>> => exitCode = 1)
  /\ (last.outcome # "none" => last.bundleThere)

C7_WitnessSingle ==
  /\ script = "single" /\ last.saw.dir = "missing" /\ last.outcome = "returned"
  /\ LastDir.files = {"gsharp"}

\* C8: host detection depends on (OS, architecture) only, is the same in both
\* scripts, returns a key of the table, and is the stated mapping; the build
\* of the no-argument run is the build of that key.
C8_Expected(os, arch) ==
  CASE os = "win32" -> "win-x64"
    [] os = "darwin" /\ arch = "arm64" -> "mac-arm64"
    [] os = "darwin" /\ arch # "arm64" -> "mac-x64"
    [] os \notin {"win32", "darwin"} /\ arch = "arm64" -> "linux-arm64"
    [] os \notin {"win32", "darwin"} /\ arch # "arm64" -> "linux-x64"

\* C8: both getCurrentPlatform copies are the stated mapping, into the table.
C8_HostDetection ==
  /\ \A os \in OSes, arch \in Arches :
       /\ getCurrentPlatform(os, arch) = C8_Expected(os, arch)
       /\ getCurrentPlatformPkg(os, arch) = C8_Expected(os, arch)
       /\ getCurrentPlatform(os, arch) \in Keys
  /\ (host.os # Unread =>
        /\ attempts = <<C8_Expected(host.os, host.arch)>>
        /\ last.key \in DOMAIN targets /\ last.key \in DOMAIN platforms)

C8_Witness ==
  /\ host.os = "freebsd" /\ host.arch = "arm64"
  /\ last.key = "linux-arm64" /\ last.outcome = "returned"

\* C9: the launchers of a package are gsharp and gemini-sharp, with the .cmd
\* extension exactly for the Windows key; the two have the same content; and
\* a later build of the same package leaves each launcher that was there with
\* the content it had.
Launchers(k) ==
  {f \in distPkg.dirs[k].files : f.dir = "" /\ f.name # "README.txt"}

C9_LaunchersNow ==
  \A k \in PkgNames :
    /\ \A f, g \in Launchers(k) : f.content = g.content
    /\ {f.name : f \in Launchers(k)} \in
         {{}, IF k = "win-x64" THEN {"gsharp.cmd", "gemini-sharp.cmd"}
                               ELSE {"gsharp", "gemini-sharp"}}

C9_LaunchersKept ==
  \A k \in PkgNames : \A f \in Launchers(k) :
    \A g \in distPkg'.dirs[k].files :
      (g.dir = f.dir /\ g.name = f.name) => g.content = f.content

\* C9: launcher generation is idempotent (names, equal contents, contents
\* kept by every later step).
C9_LauncherIdempotent == [](C9_LaunchersNow) /\ [][C9_LaunchersKept]_vars

C9_Witness ==
  /\ script = "standalone" /\ runs = 2 /\ last.rebuilt /\ last.outcome = "returned"
  /\ last.key = "win-x64"
  /\ {f.name : f \in Launchers("win-x64")} = {"gsharp.cmd", "gemini-sharp.cmd"}

\* C10: in the single-file driver with --all, once the toolchain check and
\* the locator have passed, failed builds do not change the outcome: the run
\* cannot stop before the 'Done' step, it exits with code 0 whatever set of
\* builds failed, and every failed platform's directory is there without the
\* executable.
C10_FailuresDoNotChangeOutcome ==
  (script = "single" /\ buildAll /\ locatorRuns = 1
     /\ ~(pc = "exited" /\ attempts = <<>>)) =>
    /\ (pc = "dispatch" => ENABLED BuildAll)
    /\ (pc = "finish" => ENABLED Finish)
    /\ pc \in {"dispatch", "finish", "exited"}
    /\ (pc = "exited" => exitCode = 0 /\ printed.done /\ attempts = KeyOrder)
    /\ \A k \in failed :
         /\ distSingle.dirs[k].present
         /\ outputNames[k] \notin distSingle.dirs[k].files

C10_Witness ==
  /\ script = "single" /\ buildAll /\ pc = "exited" /\ exitCode = 0
  /\ failed = Keys

====
